---- MODULE Spec2Model ----
(***************************************************************************)
(* Model of the refund and subscription resource groups of paystack-rs:    *)
(* the request builders (derive_builder), the endpoint methods             *)
(* (src/endpoints/refund.rs, src/endpoints/subscription.rs) and the        *)
(* serde (de)serialization of the request and response models.             *)
(***************************************************************************)
EXTENDS Integers, Sequences, FiniteSets, TLC

(***************************************************************************)
(* Bounds                                                                  *)
(***************************************************************************)
\* number of call slots that run concurrently in ConcSpec
NumCalls == 2
\* refund ids passed to fetch_refund / retry_refund range over 0..MaxId
MaxId == 1

(***************************************************************************)
(* Rust values.  String = TLA+ string, integers = integers,                *)
(* Option<T> = None | Some(v), Result<T,E> = Ok(v) | Err(e).               *)
(***************************************************************************)
None == <<"None">>
Some(v) == <<"Some", v>>
Ok(v) == <<"Ok", v>>
Err(e) == <<"Err", e>>

(***************************************************************************)
(* JSON values (serde_json::Value): tagged tuples; an object is a function *)
(* from its keys to JSON values.                                           *)
(***************************************************************************)
JNull == <<"null">>
JBool(b) == <<"bool", b>>
JNum(n) == <<"num", n>>
JStr(s) == <<"str", s>>
JArr(a) == <<"arr", a>>
JObj(o) == <<"obj", o>>

(***************************************************************************)
(* Struct descriptions.  One record per struct field, in declaration       *)
(* order: name (Rust field), key (name written by Serialize and accepted   *)
(* by Deserialize: the field name or its serde rename), aliases (extra     *)
(* keys accepted by Deserialize), ty, opt (the field is Option<ty>),       *)
(* dflt (#[builder(default)]), strip (#[builder(setter(strip_option))]).   *)
(***************************************************************************)
Field(n, k, al, t, o, d, s) ==
    [name |-> n, key |-> k, aliases |-> al, ty |-> t, opt |-> o, dflt |-> d, strip |-> s]

CreateRefundRequestFields ==
    << Field("transaction", "transaction", {}, "String", FALSE, FALSE, FALSE),
       Field("amount", "amount", {}, "u64", TRUE, TRUE, TRUE),
       Field("currency", "currency", {}, "String", TRUE, TRUE, TRUE),
       Field("customer_note", "customer_note", {}, "String", TRUE, TRUE, TRUE),
       Field("merchant_note", "merchant_note", {}, "String", TRUE, TRUE, TRUE) >>

RefundAccountDetailsFields ==
    << Field("currency", "currency", {}, "String", FALSE, FALSE, FALSE),
       Field("account_number", "account_number", {}, "String", FALSE, FALSE, FALSE),
       Field("bank_id", "bank_id", {}, "String", FALSE, FALSE, FALSE) >>

RetryRefundRequestFields ==
    << Field("refund_account_details", "refund_account_details", {},
             "RefundAccountDetails", FALSE, FALSE, FALSE) >>

CreateSubscriptionRequestFields ==
    << Field("plan", "plan", {}, "String", FALSE, FALSE, FALSE),
       Field("customer", "customer", {}, "String", FALSE, FALSE, FALSE),
       Field("authorization", "authorization", {}, "String", TRUE, FALSE, FALSE),
       Field("start_date", "start_date", {}, "String", TRUE, FALSE, FALSE) >>

FetchSubscriptionRequestFields ==
    << Field("page", "page", {}, "u32", TRUE, FALSE, FALSE),
       Field("per_page", "per_page", {}, "u32", TRUE, FALSE, FALSE),
       Field("customer", "customer", {}, "u32", TRUE, FALSE, FALSE),
       Field("plan", "plan", {}, "String", TRUE, FALSE, FALSE) >>

UpdateSubscriptionRequestFields ==
    << Field("token", "token", {}, "String", FALSE, FALSE, FALSE),
       Field("code", "code", {}, "String", FALSE, FALSE, FALSE) >>

RequestFields(struct) ==
    CASE struct = "CreateRefundRequest" -> CreateRefundRequestFields
      [] struct = "RetryRefundRequest" -> RetryRefundRequestFields
      [] struct = "CreateSubscriptionRequest" -> CreateSubscriptionRequestFields
      [] struct = "FetchSubscriptionRequest" -> FetchSubscriptionRequestFields
      [] struct = "UpdateSubscriptionRequest" -> UpdateSubscriptionRequestFields

FieldNames(fields) == { fields[i].name : i \in 1..Len(fields) }

FieldByName(fields, n) == fields[CHOOSE i \in 1..Len(fields) : fields[i].name = n]
FieldByKey(fields, k) == fields[CHOOSE i \in 1..Len(fields) : fields[i].key = k]
FieldKeys(fields) == { fields[i].key : i \in 1..Len(fields) }

(***************************************************************************)
(* derive_builder: <Struct>Builder::default(), setters, build().           *)
(* A builder is the function from the fields whose setter was called to    *)
(* the value handed to the setter.                                         *)
(***************************************************************************)
\* value a #[builder(default)] field takes when its setter was not called
DefaultOf(f) == IF f.opt THEN None ELSE IF f.ty = "String" THEN "" ELSE 0

\* what the setter stores: strip_option setters take T and store Some(T)
SetterStores(f, v) == IF f.strip THEN Some(v) ELSE v

\* a build() that falls back to the default of every field (struct-level
\* #[builder(default)]) and so finds no field uninitialized
FirstUninitialized_AllDefault(fields, b, i) == 0

\* index of the first field build() finds uninitialized, 0 when there is none
RECURSIVE FirstUninitialized(_, _, _)
FirstUninitialized(fields, b, i) ==
    IF i > Len(fields) THEN 0
    ELSE IF fields[i].name \notin DOMAIN b /\ ~fields[i].dflt THEN i
    ELSE FirstUninitialized(fields, b, i + 1)

\* <Struct>Builder::build(): Err(UninitializedField(name)) or Ok(struct)
Build(struct, b) ==
    LET fields == RequestFields(struct)
        i == FirstUninitialized(fields, b, 1)
    IN  IF i # 0
        THEN Err(<<"UninitializedField", fields[i].name>>)
        ELSE Ok([struct |-> struct,
                 v |-> [n \in FieldNames(fields) |->
                          LET f == FieldByName(fields, n)
                          IN  IF n \in DOMAIN b THEN SetterStores(f, b[n])
                              ELSE DefaultOf(f)]])

Restrict(full, S) == [n \in S |-> full[n]]

\* an optional argument: absent or present (wide), present (narrow)
OptArg(wide, v) == IF wide THEN {None, Some(v)} ELSE {Some(v)}

\* values the callers hand to the setters
SetterValues(struct, wide) ==
    CASE struct = "CreateRefundRequest" ->
           [transaction : {"T_ref"}, amount : {5000}, currency : {"NGN"},
            customer_note : {"cnote"}, merchant_note : {"mnote"}]
      [] struct = "RetryRefundRequest" ->
           [refund_account_details :
              {[currency |-> "NGN", account_number |-> "0123456789", bank_id |-> "9"]}]
      [] struct = "CreateSubscriptionRequest" ->
           [plan : {"PLN_a"}, customer : {"CUS_a"},
            authorization : OptArg(wide, "AUTH_a"),
            start_date : OptArg(wide, "2026-01-01")]
      [] struct = "FetchSubscriptionRequest" ->
           [page : OptArg(wide, 2), per_page : OptArg(wide, 20),
            customer : OptArg(wide, 7),
            plan : OptArg(wide, "PLN_a") \cup (IF wide THEN {Some("PLN a/b")} ELSE {})]
      [] struct = "UpdateSubscriptionRequest" ->
           [token : {"tok_a"}, code : {"SUB_a"}]

\* which setters were called: every subset of the fields (wide), or all of
\* them / none of them (narrow, for the concurrent specification)
SetterSubsets(struct, wide) ==
    LET names == FieldNames(RequestFields(struct))
    IN  IF wide THEN SUBSET names ELSE {names, {}}

Builders(struct, wide) ==
    { Restrict(full, S) : full \in SetterValues(struct, wide), S \in SetterSubsets(struct, wide) }

(***************************************************************************)
(* serde: #[derive(Serialize)] / #[derive(Deserialize)]                    *)
(***************************************************************************)
RECURSIVE ToJson(_, _)
RECURSIVE SerializeStruct(_, _)
\* Serialize of a field value of type ty
ToJson(ty, v) ==
    CASE ty = "String" -> JStr(v)
      [] ty \in {"u64", "u32"} -> JNum(v)
      [] ty = "bool" -> JBool(v)
      [] ty = "Value" -> v
      [] ty = "Domain" -> JStr(IF v = "Test" THEN "test" ELSE "live")
      [] ty = "SubscriptionStatus" -> JStr("complete")
      [] ty = "Authorization" -> JObj(v)
      [] ty = "RefundAccountDetails" -> SerializeStruct(RefundAccountDetailsFields, v)

\* a Serialize that writes every field under its Rust name (rename ignored)
SerializeStruct_RustNames(fields, v) ==
    JObj([n \in FieldNames(fields) |->
            LET f == FieldByName(fields, n)
                x == v[n]
            IN  IF f.opt
                THEN IF x[1] = "None" THEN JNull ELSE ToJson(f.ty, x[2])
                ELSE ToJson(f.ty, x)])

\* derived Serialize: every field is written under its key, None as null
SerializeStruct(fields, v) ==
    JObj([k \in FieldKeys(fields) |->
            LET f == FieldByKey(fields, k)
                x == v[f.name]
            IN  IF f.opt
                THEN IF x[1] = "None" THEN JNull ELSE ToJson(f.ty, x[2])
                ELSE ToJson(f.ty, x)])

RECURSIVE FromJson(_, _)
RECURSIVE DeserializeStruct(_, _)
RECURSIVE FirstFieldError(_, _, _)
RECURSIVE FirstElemError(_, _, _)

\* RefundData without #[serde(alias = ...)] on its timestamps
RefundTimestampAliases_None == [created_at |-> {}, updated_at |-> {}]

\* #[serde(alias = "createdAt")] / #[serde(alias = "updatedAt")] of RefundData
RefundTimestampAliases == [created_at |-> {"createdAt"}, updated_at |-> {"updatedAt"}]

\* response entity of src/models/refund_models.rs
RefundDataFields ==
    << Field("id", "id", {}, "u64", FALSE, FALSE, FALSE),
       Field("integration", "integration", {}, "u64", TRUE, FALSE, FALSE),
       Field("domain", "domain", {}, "String", TRUE, FALSE, FALSE),
       Field("transaction", "transaction", {}, "Value", TRUE, FALSE, FALSE),
       Field("amount", "amount", {}, "u64", FALSE, FALSE, FALSE),
       Field("deducted_amount", "deducted_amount", {}, "u64", TRUE, FALSE, FALSE),
       Field("currency", "currency", {}, "String", FALSE, FALSE, FALSE),
       Field("channel", "channel", {}, "String", TRUE, FALSE, FALSE),
       Field("fully_deducted", "fully_deducted", {}, "bool", TRUE, FALSE, FALSE),
       Field("refunded_by", "refunded_by", {}, "String", TRUE, FALSE, FALSE),
       Field("refunded_at", "refunded_at", {}, "String", TRUE, FALSE, FALSE),
       Field("expected_at", "expected_at", {}, "String", TRUE, FALSE, FALSE),
       Field("customer_note", "customer_note", {}, "String", TRUE, FALSE, FALSE),
       Field("merchant_note", "merchant_note", {}, "String", TRUE, FALSE, FALSE),
       Field("status", "status", {}, "String", FALSE, FALSE, FALSE),
       Field("created_at", "created_at", RefundTimestampAliases.created_at,
             "String", TRUE, FALSE, FALSE),
       Field("updated_at", "updated_at", RefundTimestampAliases.updated_at,
             "String", TRUE, FALSE, FALSE) >>

\* response entity of src/models/subscription_models.rs
SubscriptionFields ==
    << Field("customer", "customer", {}, "u32", FALSE, FALSE, FALSE),
       Field("plan", "plan", {}, "u32", FALSE, FALSE, FALSE),
       Field("integration", "integration", {}, "u32", FALSE, FALSE, FALSE),
       Field("domain", "domain", {}, "Domain", FALSE, FALSE, FALSE),
       Field("start", "start", {}, "u32", FALSE, FALSE, FALSE),
       Field("status", "status", {}, "SubscriptionStatus", FALSE, FALSE, FALSE),
       Field("quantity", "quantity", {}, "u32", FALSE, FALSE, FALSE),
       Field("amount", "amount", {}, "u32", FALSE, FALSE, FALSE),
       Field("subscription_code", "subscription_code", {}, "String", FALSE, FALSE, FALSE),
       Field("email_token", "email_token", {}, "String", FALSE, FALSE, FALSE),
       Field("authorization", "authorization", {}, "Authorization", FALSE, FALSE, FALSE),
       Field("easy_cron_id", "easy_cron_id", {}, "String", TRUE, FALSE, FALSE),
       Field("cron_expression", "cron_expression", {}, "String", FALSE, FALSE, FALSE),
       Field("next_payment_date", "next_payment_date", {}, "String", FALSE, FALSE, FALSE),
       Field("open_invoice", "open_invoice", {}, "String", TRUE, FALSE, FALSE),
       Field("id", "id", {}, "u32", FALSE, FALSE, FALSE),
       Field("created_at", "createdAt", {}, "String", FALSE, FALSE, FALSE),
       Field("updated_at", "updatedAt", {}, "String", FALSE, FALSE, FALSE) >>

\* the traits each response entity derives
Derives(entity) ==
    CASE entity = "RefundData" -> {"Clone", "Debug", "Deserialize", "Default"}
      [] entity = "Subscription" -> {"Debug", "Clone", "Deserialize", "Serialize", "Default"}

EntityFields(entity) ==
    CASE entity = "RefundData" -> RefundDataFields
      [] entity = "Subscription" -> SubscriptionFields

\* the envelope Response<T>: status, message and the optional payload data
ResponseFields(payload) ==
    << Field("status", "status", {}, "bool", FALSE, FALSE, FALSE),
       Field("message", "message", {}, "String", FALSE, FALSE, FALSE),
       Field("data", "data", {}, payload, TRUE, FALSE, FALSE) >>

\* Deserialize of a value of type ty from a JSON value
FromJson(ty, jv) ==
    CASE ty = "String" -> IF jv[1] = "str" THEN Ok(jv[2]) ELSE Err("invalid type")
      [] ty \in {"u64", "u32"} ->
           IF jv[1] = "num" /\ jv[2] >= 0 THEN Ok(jv[2]) ELSE Err("invalid type")
      [] ty = "bool" -> IF jv[1] = "bool" THEN Ok(jv[2]) ELSE Err("invalid type")
      [] ty = "Value" -> Ok(jv)
      [] ty = "unit" -> IF jv[1] = "null" THEN Ok(<<>>) ELSE Err("invalid type")
      [] ty = "Domain" ->
           IF jv[1] = "str" /\ jv[2] \in {"test", "live"}
           THEN Ok(IF jv[2] = "test" THEN "Test" ELSE "Live") ELSE Err("unknown variant")
      [] ty = "SubscriptionStatus" ->
           IF jv[1] = "str" /\ jv[2] = "complete" THEN Ok("Complete") ELSE Err("unknown variant")
      [] ty = "Authorization" -> IF jv[1] = "obj" THEN Ok(jv[2]) ELSE Err("invalid type")
      [] ty \in {"RefundData", "Subscription"} ->
           LET r == DeserializeStruct(EntityFields(ty), jv)
           IN  IF r[1] = "Err" THEN Err(r[2][1]) ELSE r
      [] ty \in {"Vec<RefundData>", "Vec<Subscription>"} ->
           IF jv[1] # "arr" THEN Err("invalid type")
           ELSE LET elem == IF ty = "Vec<RefundData>" THEN "RefundData" ELSE "Subscription"
                    i == FirstElemError(elem, jv[2], 1)
                IN  IF i # 0 THEN FromJson(elem, jv[2][i])
                    ELSE Ok([j \in 1..Len(jv[2]) |-> FromJson(elem, jv[2][j])[2]])

FirstElemError(elem, a, i) ==
    IF i > Len(a) THEN 0
    ELSE IF FromJson(elem, a[i])[1] = "Err" THEN i
    ELSE FirstElemError(elem, a, i + 1)

\* the keys of object o under which field f is accepted
PresentKeys(f, o) == ({f.key} \cup f.aliases) \cap DOMAIN o

\* the outcome of deserializing one field f from object o
FieldFromObject(f, o) ==
    LET present == PresentKeys(f, o)
    IN  IF Cardinality(present) > 1 THEN Err(<<"duplicate field", f.key>>)
        ELSE IF present = {}
             THEN IF f.opt THEN Ok(None) ELSE Err(<<"missing field", f.key>>)
        ELSE LET jv == o[CHOOSE k \in present : TRUE]
             IN  IF f.opt /\ jv[1] = "null" THEN Ok(None)
                 ELSE LET r == FromJson(f.ty, jv)
                      IN  IF r[1] = "Err" THEN Err(<<r[2], f.key>>)
                          ELSE IF f.opt THEN Ok(Some(r[2])) ELSE r

FirstFieldError(fields, o, i) ==
    IF i > Len(fields) THEN 0
    ELSE IF FieldFromObject(fields[i], o)[1] = "Err" THEN i
    ELSE FirstFieldError(fields, o, i + 1)

\* derived Deserialize: unknown keys are ignored, every field must deserialize
DeserializeStruct(fields, jv) ==
    IF jv[1] # "obj" THEN Err(<<"invalid type", "struct">>)
    ELSE LET o == jv[2]
             i == FirstFieldError(fields, o, 1)
         IN  IF i # 0 THEN FieldFromObject(fields[i], o)
             ELSE Ok([n \in FieldNames(fields) |->
                        FieldFromObject(FieldByName(fields, n), o)[2]])

(***************************************************************************)
(* serde_json entry points and error texts                                 *)
(***************************************************************************)
\* serde_json::to_value(request): a Result; the derived Serialize of the
\* request structs writes every field
to_value(request) ==
    { Ok(SerializeStruct(RequestFields(request.struct), request.v)),
      Err(<<"serialize error", request.struct>>) }

\* a from_str that rejects an envelope whose status flag is false
from_str_StatusRequired(payload, text) ==
    IF text[1] # "json" THEN Err(<<"expected value", "line 1 column 1">>)
    ELSE LET parsed == DeserializeStruct(ResponseFields(payload), text[2])
         IN  IF parsed[1] = "Ok" /\ ~parsed[2].status
             THEN Err(<<"request unsuccessful", parsed[2].message>>)
             ELSE parsed

\* serde_json::from_str::<Response<payload>>(text); a response text is
\* <<"json", value>> or <<"notjson">>
from_str(payload, text) ==
    IF text[1] # "json" THEN Err(<<"expected value", "line 1 column 1">>)
    ELSE DeserializeStruct(ResponseFields(payload), text[2])

\* e.to_string() of a serde_json error or of an HttpClient error
to_string(e) ==
    IF e[1] = "HttpStatus" THEN "request failed with status code: " \o ToString(e[2])
    ELSE e[1] \o ": " \o e[2]

(***************************************************************************)
(* Endpoint structs                                                        *)
(***************************************************************************)
PAYSTACK_BASE_URL == "https://api.paystack.co"
ApiKey == "sk_test_key"
HttpHandle == "shared_http_client"

\* RefundEndpoints::new(key, http)
RefundEndpoints_new(k, h) ==
    [key |-> k, base_url |-> PAYSTACK_BASE_URL \o "/refund", http |-> h]

\* SubscriptionEndpoints::new(key, http)
SubscriptionEndpoints_new(k, h) ==
    [key |-> k, base_url |-> PAYSTACK_BASE_URL \o "/subscription", http |-> h]

VARIABLES
    refund,        \* the RefundEndpoints struct: key, base_url, http
    subscription,  \* the SubscriptionEndpoints struct: key, base_url, http
    pc,            \* per call slot: idle, built, buildfailed, awaiting, responded, done
    builder,       \* per call slot: Some(struct and setter values of the builder
                   \* build() was called on) or None
    req,           \* per call slot: the Result of build(), or None
    op,            \* per call slot: the endpoint method called, "none" before
    args,          \* per call slot: Some(arguments of the method) or None
    sent,          \* per call slot: the invocations of the HTTP client it made
    resp,          \* per call slot: Some(Result the HTTP client returned) or None
    result,        \* per call slot: Some(Result the method returned) or None
    entity,        \* serde: the response entity type under test, "none" when unused
    docA,          \* serde: a response object of that entity (JSON)
    docB,          \* serde: the same object with its timestamps named independently
    parsedA,       \* serde: Some(Result of deserializing docA) or None
    parsedB,       \* serde: Some(Result of deserializing docB) or None
    reser          \* serde: Some(Result of serializing the entity parsed from docA) or None

endpointVars == <<refund, subscription>>
callVars == <<pc, builder, req, op, args, sent, resp, result>>
serdeVars == <<entity, docA, docB, parsedA, parsedB, reser>>
vars == <<refund, subscription, pc, builder, req, op, args, sent, resp, result,
          entity, docA, docB, parsedA, parsedB, reser>>

Slots == DOMAIN pc

(***************************************************************************)
(* Inputs: arguments of the calls and answers of the HTTP client           *)
(***************************************************************************)
RefundIds(wide) == IF wide THEN 0..MaxId ELSE {MaxId}

ListRefundsArgs(wide) ==
    IF wide
    THEN [transaction : {None, Some("T_ref")}, currency : {None, Some("NGN")},
          from : {None, Some("2026-01-01")}, to : {None, Some("2026-02-01")},
          per_page : {None, Some(5)}, page : {None, Some(2)}]
    ELSE [transaction : {None}, currency : {None}, from : {None}, to : {None},
          per_page : {None, Some(5)}, page : {None}]

SubscriptionCodes == {"SUB_a"}

Timestamp == "2026-01-01T00:00:00.000Z"

\* the two names under which the API sends each timestamp
TimestampNamings == [created : {"createdAt", "created_at"}, updated : {"updatedAt", "updated_at"}]
CamelCase == [created |-> "createdAt", updated |-> "updatedAt"]
SnakeCase == [created |-> "created_at", updated |-> "updated_at"]

\* how a response object carries the optional fields: left out, null, or set
OptionalForms == {"absent", "null", "set"}

Timestamps(naming) ==
    (naming.created :> JStr(Timestamp)) @@ (naming.updated :> JStr("2026-02-02T00:00:00.000Z"))

\* a refund object as the API returns it
RefundDoc(form, naming) ==
    LET required == [id |-> JNum(1), amount |-> JNum(5000), currency |-> JStr("NGN"),
                     status |-> JStr("pending")]
        optional == [integration |-> JNum(100), domain |-> JStr("test"),
                     transaction |-> JNum(77), deducted_amount |-> JNum(0),
                     channel |-> JStr("api"), fully_deducted |-> JBool(FALSE),
                     refunded_by |-> JStr("a@b.c"), refunded_at |-> JStr(Timestamp),
                     expected_at |-> JStr(Timestamp), customer_note |-> JStr("cnote"),
                     merchant_note |-> JStr("mnote")]
    IN  JObj(required @@ Timestamps(naming)
             @@ (CASE form = "absent" -> <<>>
                   [] form = "null" -> [k \in DOMAIN optional |-> JNull]
                   [] form = "set" -> optional))

\* a subscription object as the API returns it
SubscriptionDoc(form, naming) ==
    LET required == [customer |-> JNum(7), plan |-> JNum(3), integration |-> JNum(100),
                     domain |-> JStr("test"), start |-> JNum(1700000000),
                     status |-> JStr("complete"), quantity |-> JNum(1),
                     amount |-> JNum(5000), subscription_code |-> JStr("SUB_a"),
                     email_token |-> JStr("tok_a"),
                     authorization |-> JObj([authorization_code |-> JStr("AUTH_a")]),
                     cron_expression |-> JStr("0 0 1 * *"),
                     next_payment_date |-> JStr(Timestamp), id |-> JNum(9)]
        optional == [easy_cron_id |-> JStr("cron"), open_invoice |-> JStr("INV_a")]
    IN  JObj(required @@ Timestamps(naming)
             @@ (CASE form = "absent" -> <<>>
                   [] form = "null" -> [k \in DOMAIN optional |-> JNull]
                   [] form = "set" -> optional))

EntityDoc(e, form, naming) ==
    IF e = "RefundData" THEN RefundDoc(form, naming) ELSE SubscriptionDoc(form, naming)

RefundJson(camel) == RefundDoc("absent", IF camel THEN CamelCase ELSE SnakeCase)
SubscriptionJson(camel) == SubscriptionDoc("null", IF camel THEN CamelCase ELSE SnakeCase)

\* the envelope {status, message, data}; d = None leaves data out
Envelope(st, msg, d) ==
    JObj([status |-> JBool(st), message |-> JStr(msg)]
         @@ (IF d[1] = "None" THEN <<>> ELSE [data |-> d[2]]))

TransportErrors(wide) ==
    IF wide THEN {<<"HttpStatus", 400>>, <<"HttpStatus", 404>>, <<"transport error", "timed out">>}
    ELSE {<<"HttpStatus", 404>>}

ResponseTexts(wide) ==
    IF wide
    THEN {<<"notjson">>}
         \cup { <<"json", Envelope(st, "message", d)>> :
                  st \in BOOLEAN,
                  d \in {None, Some(JNull), Some(RefundJson(TRUE)), Some(RefundJson(FALSE)),
                         Some(JArr(<<RefundJson(FALSE)>>)), Some(SubscriptionJson(TRUE)),
                         Some(JArr(<<SubscriptionJson(TRUE)>>)),
                         Some(JStr("https://paystack.com/manage/SUB_a"))} }
         \cup {<<"json", JObj([status |-> JBool(TRUE)])>>}
    ELSE {<<"notjson">>, <<"json", Envelope(TRUE, "message", None)>>}

\* what the HTTP client's get / post resolves to: Ok(text) or Err(e)
HttpOutcomes(wide) ==
    { Ok(t) : t \in ResponseTexts(wide) } \cup { Err(e) : e \in TransportErrors(wide) }

(***************************************************************************)
(* Initial state: the client constructed both endpoint structs from one    *)
(* key and one shared HTTP client handle; no call has started.             *)
(***************************************************************************)
InitSlots(slots) ==
    /\ refund = RefundEndpoints_new(ApiKey, HttpHandle)
    /\ subscription = SubscriptionEndpoints_new(ApiKey, HttpHandle)
    /\ pc = [c \in slots |-> "idle"]
    /\ builder = [c \in slots |-> None]
    /\ req = [c \in slots |-> None]
    /\ op = [c \in slots |-> "none"]
    /\ args = [c \in slots |-> None]
    /\ sent = [c \in slots |-> <<>>]
    /\ resp = [c \in slots |-> None]
    /\ result = [c \in slots |-> None]

\* no response object is under test
SerdeIdle ==
    /\ entity = "none"
    /\ docA = JNull
    /\ docB = JNull
    /\ parsedA = None
    /\ parsedB = None
    /\ reser = None

(***************************************************************************)
(* Steps shared by the endpoint methods                                    *)
(***************************************************************************)
\* <Struct>Builder::default() ... .build() evaluated by the caller
BuildRequest(c, struct, wide) ==
    /\ pc[c] = "idle"
    /\ \E b \in Builders(struct, wide) :
         /\ builder' = [builder EXCEPT ![c] = Some([struct |-> struct, set |-> b])]
         /\ req' = [req EXCEPT ![c] = Build(struct, b)]
         /\ pc' = [pc EXCEPT ![c] = IF Build(struct, b)[1] = "Ok" THEN "built" ELSE "buildfailed"]
    /\ UNCHANGED <<refund, subscription, op, args, sent, resp, result, serdeVars>>

\* slot c holds a built request of the given struct
HasRequest(c, struct) ==
    /\ pc[c] = "built"
    /\ req[c][1] = "Ok"
    /\ req[c][2].struct = struct

\* an invocation that keeps the URL it formatted in the endpoint struct
Invoke_KeepsUrl(c, name, a, method, url, k, body, query) ==
    /\ op' = [op EXCEPT ![c] = name]
    /\ args' = [args EXCEPT ![c] = Some(a)]
    /\ sent' = [sent EXCEPT ![c] = Append(@, [method |-> method, url |-> url, key |-> k,
                                              body |-> body, query |-> query])]
    /\ pc' = [pc EXCEPT ![c] = "awaiting"]
    /\ IF name \in {"create_refund", "retry_refund", "list_refunds", "fetch_refund"}
       THEN refund' = [refund EXCEPT !.base_url = url] /\ UNCHANGED subscription
       ELSE subscription' = [subscription EXCEPT !.base_url = url] /\ UNCHANGED refund
    /\ UNCHANGED <<builder, req, resp, result, serdeVars>>

\* self.http.post(url, &self.key, &body).await / self.http.get(url, &self.key, query).await:
\* the method invokes the HTTP client and suspends
Invoke(c, name, a, method, url, k, body, query) ==
    /\ op' = [op EXCEPT ![c] = name]
    /\ args' = [args EXCEPT ![c] = Some(a)]
    /\ sent' = [sent EXCEPT ![c] = Append(@, [method |-> method, url |-> url, key |-> k,
                                              body |-> body, query |-> query])]
    /\ pc' = [pc EXCEPT ![c] = "awaiting"]
    /\ UNCHANGED <<refund, subscription, builder, req, resp, result, serdeVars>>

\* map_err(..)? before the HTTP client is invoked: the method returns Err(e)
Fail(c, name, a, e) ==
    /\ op' = [op EXCEPT ![c] = name]
    /\ args' = [args EXCEPT ![c] = Some(a)]
    /\ result' = [result EXCEPT ![c] = Some(Err(e))]
    /\ pc' = [pc EXCEPT ![c] = "done"]
    /\ UNCHANGED <<refund, subscription, builder, req, sent, resp, serdeVars>>

\* the method resumes with the HTTP client's answer in hand
Resumed(c, name) ==
    /\ pc[c] = "responded"
    /\ op[c] = name

\* a tail that reports a transport failure under the Charge variant
Finish_ChargeOnTransport(response, transportVariant, payload, parseVariant) ==
    IF response[1] = "Err" THEN Err(<<"Charge", to_string(response[2])>>)
    ELSE LET parsed == from_str(payload, response[2])
         IN  IF parsed[1] = "Err" THEN Err(<<parseVariant, to_string(parsed[2])>>)
             ELSE Ok(parsed[2])

\* the tail of every method: map_err on the transport result, from_str,
\* map_err on the parse result, Ok(parsed_response)
Finish(response, transportVariant, payload, parseVariant) ==
    IF response[1] = "Err" THEN Err(<<transportVariant, to_string(response[2])>>)
    ELSE LET parsed == from_str(payload, response[2])
         IN  IF parsed[1] = "Err" THEN Err(<<parseVariant, to_string(parsed[2])>>)
             ELSE Ok(parsed[2])

\* a method that invokes the HTTP client a second time when it got an error
Return_RetryOnError(c, r) ==
    IF r[1] = "Err" /\ Len(sent[c]) < 2
    THEN /\ sent' = [sent EXCEPT ![c] = Append(@, sent[c][1])]
         /\ pc' = [pc EXCEPT ![c] = "awaiting"]
         /\ UNCHANGED <<refund, subscription, builder, req, op, args, resp, result, serdeVars>>
    ELSE /\ result' = [result EXCEPT ![c] = Some(r)]
         /\ pc' = [pc EXCEPT ![c] = "done"]
         /\ UNCHANGED <<refund, subscription, builder, req, op, args, sent, resp, serdeVars>>

\* the method returns r
Return(c, r) ==
    /\ result' = [result EXCEPT ![c] = Some(r)]
    /\ pc' = [pc EXCEPT ![c] = "done"]
    /\ UNCHANGED <<refund, subscription, builder, req, op, args, sent, resp, serdeVars>>

\* the HTTP client (the injected collaborator) answers an outstanding call
HttpRespond(c, wide) ==
    /\ pc[c] = "awaiting"
    /\ \E r \in HttpOutcomes(wide) : resp' = [resp EXCEPT ![c] = Some(r)]
    /\ pc' = [pc EXCEPT ![c] = "responded"]
    /\ UNCHANGED <<refund, subscription, builder, req, op, args, sent, result, serdeVars>>

(***************************************************************************)
(* Request builders (one build action per builder)                         *)
(***************************************************************************)
CreateRefundRequestBuilder_build(c, wide) == BuildRequest(c, "CreateRefundRequest", wide)
RetryRefundRequestBuilder_build(c, wide) == BuildRequest(c, "RetryRefundRequest", wide)
CreateSubscriptionRequestBuilder_build(c, wide) ==
    BuildRequest(c, "CreateSubscriptionRequest", wide)
FetchSubscriptionRequestBuilder_build(c, wide) ==
    BuildRequest(c, "FetchSubscriptionRequest", wide)
UpdateSubscriptionRequestBuilder_build(c, wide) ==
    BuildRequest(c, "UpdateSubscriptionRequest", wide)

(***************************************************************************)
(* RefundEndpoints                                                         *)
(***************************************************************************)
create_refund(c) ==
    \/ /\ HasRequest(c, "CreateRefundRequest")
       /\ LET request == req[c][2]
              url == refund.base_url
          IN  \E body \in to_value(request) :
                IF body[1] = "Err"
                THEN Fail(c, "create_refund", request, <<"Refund", to_string(body[2])>>)
                ELSE Invoke(c, "create_refund", request, "POST", url, refund.key,
                            Some(body[2]), None)
    \/ /\ Resumed(c, "create_refund")
       /\ Return(c, Finish(resp[c][2], "Refund", "RefundData", "Refund"))

retry_refund(c, wide) ==
    \/ /\ HasRequest(c, "RetryRefundRequest")
       /\ \E id \in RefundIds(wide) :
            LET request == req[c][2]
                url == refund.base_url \o "/retry_with_customer_details/" \o ToString(id)
                a == [id |-> id, request |-> request]
            IN  \E body \in to_value(request) :
                  IF body[1] = "Err"
                  THEN Fail(c, "retry_refund", a, <<"Refund", to_string(body[2])>>)
                  ELSE Invoke(c, "retry_refund", a, "POST", url, refund.key,
                              Some(body[2]), None)
    \/ /\ Resumed(c, "retry_refund")
       /\ Return(c, Finish(resp[c][2], "Refund", "RefundData", "Refund"))

\* one (name, value) pair when the filter is present, nothing otherwise
PushIfSome(name, o) == IF o[1] = "Some" THEN << <<name, o[2]>> >> ELSE <<>>
PushNumIfSome(name, o) == IF o[1] = "Some" THEN << <<name, ToString(o[2])>> >> ELSE <<>>

\* list_refunds pushing page before perPage
ListRefundsQuery_PageFirst(a) ==
    PushIfSome("transaction", a.transaction) \o PushIfSome("currency", a.currency)
    \o PushIfSome("from", a.from) \o PushIfSome("to", a.to)
    \o PushNumIfSome("page", a.page) \o PushNumIfSome("perPage", a.per_page)

\* the query vector list_refunds assembles
ListRefundsQuery(a) ==
    PushIfSome("transaction", a.transaction) \o PushIfSome("currency", a.currency)
    \o PushIfSome("from", a.from) \o PushIfSome("to", a.to)
    \o PushNumIfSome("perPage", a.per_page) \o PushNumIfSome("page", a.page)

list_refunds(c, wide) ==
    \/ /\ pc[c] = "idle"
       /\ \E a \in ListRefundsArgs(wide) :
            LET url == refund.base_url
                query == ListRefundsQuery(a)
            IN  Invoke(c, "list_refunds", a, "GET", url, refund.key, None,
                       IF query = <<>> THEN None ELSE Some(query))
    \/ /\ Resumed(c, "list_refunds")
       /\ Return(c, Finish(resp[c][2], "Refund", "Vec<RefundData>", "Refund"))

fetch_refund(c, wide) ==
    \/ /\ pc[c] = "idle"
       /\ \E id \in RefundIds(wide) :
            LET url == refund.base_url \o "/" \o ToString(id)
            IN  Invoke(c, "fetch_refund", id, "GET", url, refund.key, None, None)
    \/ /\ Resumed(c, "fetch_refund")
       /\ Return(c, Finish(resp[c][2], "Refund", "RefundData", "Refund"))

(***************************************************************************)
(* SubscriptionEndpoints                                                   *)
(***************************************************************************)
create_subscription(c) ==
    \/ /\ HasRequest(c, "CreateSubscriptionRequest")
       /\ LET request == req[c][2]
              url == subscription.base_url
          IN  \E body \in to_value(request) :
                IF body[1] = "Err"
                THEN Fail(c, "create_subscription", request,
                          <<"Subscription", to_string(body[2])>>)
                ELSE Invoke(c, "create_subscription", request, "POST", url,
                            subscription.key, Some(body[2]), None)
    \/ /\ Resumed(c, "create_subscription")
       /\ Return(c, Finish(resp[c][2], "Subscription", "Subscription", "Subscription"))

unwrap_or(o, d) == IF o[1] = "Some" THEN o[2] ELSE d

\* a URL with plan pushed before customer
ListSubscriptionsUrl_PlanFirst(base, r) ==
    LET page == unwrap_or(r.page, 1)
        per_page == unwrap_or(r.per_page, 50)
        url0 == base \o "?perPage=" \o ToString(per_page) \o "&page=" \o ToString(page)
        url1 == IF r.plan[1] = "Some" THEN url0 \o "&plan=" \o r.plan[2] ELSE url0
    IN  IF r.customer[1] = "Some"
        THEN url1 \o "&customer=" \o ToString(r.customer[2]) ELSE url1

\* the URL list_subscriptions formats
ListSubscriptionsUrl(base, r) ==
    LET page == unwrap_or(r.page, 1)
        per_page == unwrap_or(r.per_page, 50)
        url0 == base \o "?perPage=" \o ToString(per_page) \o "&page=" \o ToString(page)
        url1 == IF r.customer[1] = "Some"
                THEN url0 \o "&customer=" \o ToString(r.customer[2]) ELSE url0
    IN  IF r.plan[1] = "Some" THEN url1 \o "&plan=" \o r.plan[2] ELSE url1

list_subscriptions(c) ==
    \/ /\ HasRequest(c, "FetchSubscriptionRequest")
       /\ LET fetch_subscription_request == req[c][2]
              url == ListSubscriptionsUrl(subscription.base_url, fetch_subscription_request.v)
          IN  Invoke(c, "list_subscriptions", fetch_subscription_request, "GET", url,
                     subscription.key, None, None)
    \/ /\ Resumed(c, "list_subscriptions")
       /\ Return(c, Finish(resp[c][2], "Subscription", "Vec<Subscription>", "Subscription"))

fetch_subscription(c) ==
    \/ /\ pc[c] = "idle"
       /\ \E subscription_id \in SubscriptionCodes :
            LET url == subscription.base_url \o "/" \o subscription_id
            IN  Invoke(c, "fetch_subscription", subscription_id, "GET", url,
                       subscription.key, None, None)
    \/ /\ Resumed(c, "fetch_subscription")
       /\ Return(c, Finish(resp[c][2], "Subscription", "Subscription", "Subscription"))

\* a body with the two values swapped
UpdateSubscriptionBody_Swapped(r) == JObj([code |-> JStr(r.token), token |-> JStr(r.code)])

\* json!({ "code": request.code, "token": request.token })
UpdateSubscriptionBody(r) == JObj([code |-> JStr(r.code), token |-> JStr(r.token)])

enable_subscription(c) ==
    \/ /\ HasRequest(c, "UpdateSubscriptionRequest")
       /\ LET update_subscription_request == req[c][2]
              url == subscription.base_url \o "/enable"
              body == UpdateSubscriptionBody(update_subscription_request.v)
          IN  Invoke(c, "enable_subscription", update_subscription_request, "POST", url,
                     subscription.key, Some(body), None)
    \/ /\ Resumed(c, "enable_subscription")
       /\ Return(c, Finish(resp[c][2], "Subscription", "unit", "Charge"))

disable_subscription(c) ==
    \/ /\ HasRequest(c, "UpdateSubscriptionRequest")
       /\ LET update_subscription_request == req[c][2]
              url == subscription.base_url \o "/disable"
              body == UpdateSubscriptionBody(update_subscription_request.v)
          IN  Invoke(c, "disable_subscription", update_subscription_request, "POST", url,
                     subscription.key, Some(body), None)
    \/ /\ Resumed(c, "disable_subscription")
       /\ Return(c, Finish(resp[c][2], "Subscription", "unit", "Charge"))

generate_update_subscription_link(c) ==
    \/ /\ pc[c] = "idle"
       /\ \E code \in SubscriptionCodes :
            LET url == subscription.base_url \o "/" \o code \o "/manage/link"
            IN  Invoke(c, "generate_update_subscription_link", code, "POST", url,
                       subscription.key, Some(JNull), None)
    \/ /\ Resumed(c, "generate_update_subscription_link")
       /\ Return(c, Finish(resp[c][2], "Subscription", "String", "Charge"))

send_update_subscription_link(c) ==
    \/ /\ pc[c] = "idle"
       /\ \E code \in SubscriptionCodes :
            LET url == subscription.base_url \o "/" \o code \o "/manage/email"
            IN  Invoke(c, "send_update_subscription_link", code, "POST", url,
                       subscription.key, Some(JNull), None)
    \/ /\ Resumed(c, "send_update_subscription_link")
       /\ Return(c, Finish(resp[c][2], "Subscription", "String", "Charge"))

(***************************************************************************)
(* Specifications                                                          *)
(***************************************************************************)
\* one step of call slot c; wide: every combination of arguments, answers:
\* every answer of the HTTP client
Step(c, wide, answers) ==
    \/ CreateRefundRequestBuilder_build(c, wide)
    \/ RetryRefundRequestBuilder_build(c, wide)
    \/ CreateSubscriptionRequestBuilder_build(c, wide)
    \/ FetchSubscriptionRequestBuilder_build(c, wide)
    \/ UpdateSubscriptionRequestBuilder_build(c, wide)
    \/ create_refund(c)
    \/ retry_refund(c, wide)
    \/ list_refunds(c, wide)
    \/ fetch_refund(c, wide)
    \/ create_subscription(c)
    \/ list_subscriptions(c)
    \/ fetch_subscription(c)
    \/ enable_subscription(c)
    \/ disable_subscription(c)
    \/ generate_update_subscription_link(c)
    \/ send_update_subscription_link(c)
    \/ HttpRespond(c, answers)

\* one call at a time, over every combination of arguments and answers
Init == InitSlots({1}) /\ SerdeIdle
Next == \E c \in Slots : Step(c, TRUE, TRUE)
Spec == Init /\ [][Next]_vars

\* one call at a time over every combination of arguments, the HTTP client
\* answering with an error, an undecodable text or a bare success envelope;
\* the method's future is polled again once the HTTP client's future resolved
FairNext == \E c \in Slots : Step(c, TRUE, FALSE)
Resume(c) == pc[c] = "responded" /\ Step(c, TRUE, FALSE)
FairSpec == Init /\ [][FairNext]_vars /\ WF_vars(Resume(1))

\* NumCalls calls in flight at once, any interleaving
ConcInit == InitSlots(1..NumCalls) /\ SerdeIdle
ConcNext == \E c \in Slots : Step(c, FALSE, FALSE)
ConcSpec == ConcInit /\ [][ConcNext]_vars

(***************************************************************************)
(* Response entities through serde: two response objects that differ only  *)
(* in how they name the timestamps are deserialized, and the entity parsed *)
(* from the first is serialized again.                                     *)
(***************************************************************************)
SerdeInit ==
    /\ InitSlots({})
    /\ entity \in {"RefundData", "Subscription"}
    /\ \E form \in OptionalForms, na \in TimestampNamings, nb \in TimestampNamings :
         /\ docA = EntityDoc(entity, form, na)
         /\ docB = EntityDoc(entity, form, nb)
    /\ parsedA = None
    /\ parsedB = None
    /\ reser = None

\* serde_json::from_value::<Entity>(docA)
DeserializeA ==
    /\ parsedA = None
    /\ parsedA' = Some(DeserializeStruct(EntityFields(entity), docA))
    /\ UNCHANGED <<endpointVars, callVars, entity, docA, docB, parsedB, reser>>

\* serde_json::from_value::<Entity>(docB)
DeserializeB ==
    /\ parsedB = None
    /\ parsedB' = Some(DeserializeStruct(EntityFields(entity), docB))
    /\ UNCHANGED <<endpointVars, callVars, entity, docA, docB, parsedA, reser>>

\* serde_json::to_value(&entity): only a type that derives Serialize has it
Reserialize ==
    /\ parsedA # None
    /\ parsedA[2][1] = "Ok"
    /\ reser = None
    /\ reser' = Some(IF "Serialize" \in Derives(entity)
                     THEN Ok(SerializeStruct(EntityFields(entity), parsedA[2][2]))
                     ELSE Err(<<"the trait Serialize is not implemented for", entity>>))
    /\ UNCHANGED <<endpointVars, callVars, entity, docA, docB, parsedA, parsedB>>

SerdeNext == DeserializeA \/ DeserializeB \/ Reserialize
SerdeSpec == SerdeInit /\ [][SerdeNext]_vars

(***************************************************************************)
(* The parameters an HTTP request carries: the query part of its URL       *)
(* followed by its query collection.                                       *)
(***************************************************************************)
RECURSIVE IndexOf(_, _, _)
\* first position >= i of character ch in string str, 0 when there is none
IndexOf(str, ch, i) ==
    IF i > Len(str) THEN 0
    ELSE IF SubSeq(str, i, i) = ch THEN i
    ELSE IndexOf(str, ch, i + 1)

RECURSIVE SplitOn(_, _)
SplitOn(str, ch) ==
    LET i == IndexOf(str, ch, 1)
    IN  IF i = 0 THEN <<str>>
        ELSE <<SubSeq(str, 1, i - 1)>> \o SplitOn(SubSeq(str, i + 1, Len(str)), ch)

UrlPath(url) ==
    LET i == IndexOf(url, "?", 1)
    IN  IF i = 0 THEN url ELSE SubSeq(url, 1, i - 1)

UrlQueryString(url) ==
    LET i == IndexOf(url, "?", 1)
    IN  IF i = 0 THEN "" ELSE SubSeq(url, i + 1, Len(url))

NameValue(p) ==
    LET i == IndexOf(p, "=", 1)
    IN  IF i = 0 THEN <<p, "">> ELSE <<SubSeq(p, 1, i - 1), SubSeq(p, i + 1, Len(p))>>

QueryPairs(qs) ==
    IF qs = "" THEN <<>>
    ELSE LET parts == SplitOn(qs, "&")
         IN  [i \in 1..Len(parts) |-> NameValue(parts[i])]

CarriedParams(r) ==
    QueryPairs(UrlQueryString(r.url)) \o (IF r.query[1] = "Some" THEN r.query[2] ELSE <<>>)

(***************************************************************************)
(* C1                                                                      *)
(***************************************************************************)
RefundFilterOrder == <<"transaction", "currency", "from", "to", "perPage", "page">>
SubscriptionFilterOrder == <<"perPage", "page", "customer", "plan">>

\* the argument of a list call that travels under parameter name n
FilterArg(a, n) ==
    IF n = "perPage" THEN a["per_page"] ELSE a[n]

\* the text under which a supplied filter value travels
FilterText(n, v) ==
    IF n \in {"perPage", "page", "customer"} THEN ToString(v) ELSE v

\* the filters of order the caller supplied, in that order
RECURSIVE SuppliedFilters(_, _, _)
SuppliedFilters(a, order, i) ==
    IF i > Len(order) THEN <<>>
    ELSE (IF FilterArg(a, order[i])[1] = "Some"
          THEN << <<order[i], FilterText(order[i], FilterArg(a, order[i])[2])>> >>
          ELSE <<>>) \o SuppliedFilters(a, order, i + 1)

ListArgs(c) == IF op[c] = "list_refunds" THEN args[c][2] ELSE args[c][2].v
ListOrder(c) == IF op[c] = "list_refunds" THEN RefundFilterOrder ELSE SubscriptionFilterOrder

SubscriptionParam(a, n) ==
    LET v == FilterArg(a, n)
    IN  IF v[1] = "Some" THEN << <<n, FilterText(n, v[2])>> >>
        ELSE IF n = "perPage" THEN << <<n, "50">> >>
        ELSE IF n = "page" THEN << <<n, "1">> >>
        ELSE <<>>

RefundOps == {"create_refund", "retry_refund", "list_refunds", "fetch_refund"}
SubscriptionOps ==
    {"create_subscription", "list_subscriptions", "fetch_subscription",
     "enable_subscription", "disable_subscription",
     "generate_update_subscription_link", "send_update_subscription_link"}

\* the error variant of the resource group an operation belongs to
GroupVariant(o) == IF o \in RefundOps THEN "Refund" ELSE "Subscription"

\* C2 as stated: whichever step failed (serialization, transport,
\* deserialization), an operation that returned an error returned the error
\* variant of its own resource group: Refund for the refund operations,
\* Subscription for the subscription operations.
C2_OwnGroupVariant ==
    \A c \in Slots :
        (pc[c] = "done" /\ result[c][2][1] = "Err")
        => result[c][2][2][1] = GroupVariant(op[c])

(***************************************************************************)
(* C3                                                                      *)
(***************************************************************************)
\* the required fields of the builders
RequiredFields(struct) ==
    CASE struct = "CreateRefundRequest" -> {"transaction"}
      [] struct = "RetryRefundRequest" -> {"refund_account_details"}
      [] struct = "CreateSubscriptionRequest" -> {"plan", "customer"}
      [] struct = "UpdateSubscriptionRequest" -> {"token", "code"}
      [] struct = "FetchSubscriptionRequest" -> {}

\* the request struct an operation takes, "none" when it takes none
RequestOf(o) ==
    CASE o = "create_refund" -> "CreateRefundRequest"
      [] o = "retry_refund" -> "RetryRefundRequest"
      [] o = "create_subscription" -> "CreateSubscriptionRequest"
      [] o = "list_subscriptions" -> "FetchSubscriptionRequest"
      [] o \in {"enable_subscription", "disable_subscription"} -> "UpdateSubscriptionRequest"
      [] OTHER -> "none"

C4_OptionalDefaultsToNone ==
    \A c \in Slots :
        builder[c] # None
        => LET fields == RequestFields(builder[c][2].struct)
           IN  /\ (req[c][1] = "Err" /\ req[c][2][1] = "UninitializedField")
                  => ~FieldByName(fields, req[c][2][2]).opt
               /\ req[c][1] = "Ok"
                  => \A i \in 1..Len(fields) :
                        (fields[i].opt /\ fields[i].name \notin DOMAIN builder[c][2].set)
                        => req[c][2].v[fields[i].name] = None

(***************************************************************************)
(* C5                                                                      *)
(***************************************************************************)
CreatedNames == {"createdAt", "created_at"}
UpdatedNames == {"updatedAt", "updated_at"}

\* the text a response object gives for a timestamp, under either name
DocTimestamp(doc, names) == doc[2][CHOOSE k \in names \cap DOMAIN doc[2] : TRUE][2]

\* the text an entity holds in a timestamp field
HeldTimestamp(e, v) == IF e = "RefundData" THEN v[2] ELSE v

\* both objects deserialized, into the same timestamps, which are the
\* timestamps the objects give
SameTimestamps ==
    /\ parsedA[2][1] = "Ok"
    /\ parsedB[2][1] = "Ok"
    /\ parsedA[2][2].created_at = parsedB[2][2].created_at
    /\ parsedA[2][2].updated_at = parsedB[2][2].updated_at
    /\ HeldTimestamp(entity, parsedA[2][2].created_at) = DocTimestamp(docA, CreatedNames)
    /\ HeldTimestamp(entity, parsedA[2][2].updated_at) = DocTimestamp(docA, UpdatedNames)

\* C5 as stated: for RefundData and for Subscription, two response objects
\* that differ only in naming the timestamps createdAt / created_at and
\* updatedAt / updated_at both deserialize, and into the same created_at and
\* updated_at.
C5_EitherNameEveryEntity ==
    (entity # "none" /\ parsedA # None /\ parsedB # None) => SameTimestamps

\* C5 amended: for RefundData, two response objects that differ only in
\* naming the timestamps createdAt / created_at and updatedAt / updated_at
\* both deserialize, and into the same created_at and updated_at; a
\* Subscription object deserializes only when it names them createdAt and
\* updatedAt, and fails with a missing field otherwise.
C5_RefundEitherName ==
    /\ (entity = "RefundData" /\ parsedA # None /\ parsedB # None) => SameTimestamps
    /\ (entity = "Subscription" /\ parsedA # None)
       => IF {"createdAt", "updatedAt"} \subseteq DOMAIN docA[2]
          THEN /\ parsedA[2][1] = "Ok"
               /\ parsedA[2][2].created_at = DocTimestamp(docA, CreatedNames)
               /\ parsedA[2][2].updated_at = DocTimestamp(docA, UpdatedNames)
          ELSE /\ parsedA[2][1] = "Err"
               /\ parsedA[2][2][1] = "missing field"

\* a refund object naming createdAt and the same object naming created_at
\* were both deserialized
C5_Witness ==
    /\ entity = "RefundData"
    /\ "createdAt" \in DOMAIN docA[2]
    /\ "created_at" \in DOMAIN docB[2]
    /\ "updatedAt" \in DOMAIN docA[2]
    /\ "updated_at" \in DOMAIN docB[2]
    /\ parsedA # None
    /\ parsedB # None
    /\ parsedA[2][1] = "Ok"
    /\ parsedB[2][1] = "Ok"

(***************************************************************************)
(* C10                                                                     *)
(***************************************************************************)
\* every modeled field the response object carries is carried by the
\* serialized entity, with the same value
ModeledFieldsPreserved ==
    /\ reser[2][1] = "Ok"
    /\ \A i \in 1..Len(EntityFields(entity)) :
         \A k \in PresentKeys(EntityFields(entity)[i], docA[2]) :
            /\ k \in DOMAIN reser[2][2][2]
            /\ reser[2][2][2][k] = docA[2][k]

\* C10 as stated: for RefundData and for Subscription, deserializing a valid
\* response object and serializing the entity again yields JSON that carries
\* every modeled field with the same value.
C10_RoundTripEveryEntity ==
    (entity # "none" /\ reser # None) => ModeledFieldsPreserved

\* C10 amended: for Subscription, deserializing a valid response object and
\* serializing the entity again yields JSON that carries every modeled field
\* with the same value; RefundData derives Deserialize only, so a RefundData
\* cannot be serialized again.
C10_SubscriptionRoundTrip ==
    /\ (entity = "Subscription" /\ reser # None) => ModeledFieldsPreserved
    /\ (entity = "RefundData" /\ reser # None) => reser[2][1] = "Err"

\* a subscription object with its optional fields set went through
\* deserialization and serialization
C10_Witness ==
    /\ entity = "Subscription"
    /\ reser # None
    /\ reser[2][1] = "Ok"
    /\ "open_invoice" \in DOMAIN docA[2]
    /\ docA[2]["open_invoice"] # JNull

(***************************************************************************)
(* C6                                                                      *)
(***************************************************************************)
IsPrefix(p, str) == Len(str) >= Len(p) /\ SubSeq(str, 1, Len(p)) = p
IsSuffix(p, str) == Len(str) >= Len(p) /\ SubSeq(str, Len(str) - Len(p) + 1, Len(str)) = p

\* the method returned because serializing its request failed
ReturnedSerializeError(c) ==
    /\ pc[c] = "done"
    /\ result[c][2][1] = "Err"
    /\ IsPrefix("serialize error", result[c][2][2][2])

\* C6: a call invokes the HTTP client at most once, exactly once unless
\* serializing the request failed; a transport failure or an undecodable
\* answer ends the call with an error and no second invocation; and once the
\* HTTP client has answered, the call eventually returns an envelope or an
\* error.
C6_SingleExchange ==
    /\ [](\A c \in Slots :
            /\ Len(sent[c]) <= 1
            /\ op[c] # "none"
               => IF ReturnedSerializeError(c) THEN Len(sent[c]) = 0 ELSE Len(sent[c]) = 1
            /\ (pc[c] = "done" /\ resp[c] # None
                /\ (resp[c][2][1] = "Err" \/ resp[c][2][2][1] = "notjson"))
               => /\ result[c][2][1] = "Err"
                  /\ Len(sent[c]) = 1)
    /\ (pc[1] = "responded") ~> (pc[1] = "done" /\ result[1] # None /\ Len(sent[1]) = 1)

\* a call whose HTTP invocation failed in transport returned
C6_Witness ==
    \E c \in Slots :
        /\ pc[c] = "done"
        /\ resp[c] # None
        /\ resp[c][2][1] = "Err"
        /\ Len(sent[c]) = 1

(***************************************************************************)
(* C7                                                                      *)
(***************************************************************************)
\* everything call slot c owns
SlotState(c) == <<pc[c], builder[c], req[c], op[c], args[c], sent[c], resp[c], result[c]>>

\* C7: under any interleaving of the calls, the endpoint structs keep their
\* construction-time key, base_url and http handle; a step of one call
\* changes nothing another call owns; and two calls of the same method with
\* the same arguments send the same request (URL, key, body, query) and,
\* given the same answer, return the same result, wherever the other calls
\* stand.
C7_IndependentCalls ==
    /\ [](/\ refund = RefundEndpoints_new(ApiKey, HttpHandle)
          /\ subscription = SubscriptionEndpoints_new(ApiKey, HttpHandle)
          /\ \A c \in Slots : sent[c] # <<>> => sent[c][1].key = ApiKey
          /\ \A c, d \in Slots :
               (op[c] = op[d] /\ op[c] # "none" /\ args[c] = args[d])
               => /\ sent[c] = sent[d] \/ sent[c] = <<>> \/ sent[d] = <<>>
                  /\ (pc[c] = "done" /\ pc[d] = "done" /\ resp[c] = resp[d])
                     => result[c] = result[d])
    /\ [][\A c \in Slots :
            SlotState(c)' # SlotState(c)
            => \A d \in Slots \ {c} : SlotState(d)' = SlotState(d)]_vars

\* two calls of the same method are in flight at once, one answered and one
\* not
C7_Witness ==
    \E c, d \in Slots :
        /\ c # d
        /\ op[c] = "fetch_refund"
        /\ op[d] = "fetch_refund"
        /\ pc[c] = "awaiting"
        /\ pc[d] = "done"

(***************************************************************************)
(* C8                                                                      *)
(***************************************************************************)
\* C8: when the HTTP client reports a failure to fetch_refund or
\* create_refund (a 400 or 404 status, or any transport error), the call
\* returns Err(PaystackAPIError::Refund(msg)), never an Ok envelope, and msg
\* is the text of the HTTP client's error (for a status, it names the status
\* code).
C8_RefundErrorOnFailure ==
    \A c \in Slots :
        (op[c] \in {"fetch_refund", "create_refund"} /\ pc[c] = "done"
         /\ resp[c] # None /\ resp[c][2][1] = "Err")
        => /\ result[c][2][1] = "Err"
           /\ result[c][2][2][1] = "Refund"
           /\ IF resp[c][2][2][1] = "HttpStatus"
              THEN IsSuffix("status code: " \o ToString(resp[c][2][2][2]), result[c][2][2][2])
              ELSE /\ IsPrefix(resp[c][2][2][1], result[c][2][2][2])
                   /\ IsSuffix(resp[c][2][2][2], result[c][2][2][2])

\* fetch_refund(0) was answered with a 404 and returned
C8_Witness ==
    \E c \in Slots :
        /\ op[c] = "fetch_refund"
        /\ args[c] = Some(0)
        /\ pc[c] = "done"
        /\ resp[c] = Some(Err(<<"HttpStatus", 404>>))

(***************************************************************************)
(* C9                                                                      *)
(***************************************************************************)
\* C9: enable_subscription issues one POST to <base>/subscription/enable
\* whose body is a JSON object with exactly the keys code and token holding
\* the request's values, and when the answer is an envelope with status
\* true, a message and no data, the call returns Ok with status true, that
\* message and no payload.
C9_EnableSubscription ==
    \A c \in Slots :
        op[c] = "enable_subscription"
        => /\ Len(sent[c]) = 1
           /\ sent[c][1].method = "POST"
           /\ sent[c][1].url = PAYSTACK_BASE_URL \o "/subscription/enable"
           /\ sent[c][1].body[1] = "Some"
           /\ sent[c][1].body[2][1] = "obj"
           /\ DOMAIN sent[c][1].body[2][2] = {"code", "token"}
           /\ sent[c][1].body[2][2]["code"] = JStr(builder[c][2].set["code"])
           /\ sent[c][1].body[2][2]["token"] = JStr(builder[c][2].set["token"])
           /\ (pc[c] = "done" /\ resp[c][2][1] = "Ok" /\ resp[c][2][2][1] = "json"
               /\ DOMAIN resp[c][2][2][2][2] = {"status", "message"}
               /\ resp[c][2][2][2][2]["status"] = JBool(TRUE))
              => result[c] = Some(Ok([status |-> TRUE,
                                      message |-> resp[c][2][2][2][2]["message"][2],
                                      data |-> None]))

\* enable_subscription was answered with a success envelope without data and
\* returned
C9_Witness ==
    \E c \in Slots :
        /\ op[c] = "enable_subscription"
        /\ pc[c] = "done"
        /\ resp[c] = Some(Ok(<<"json", Envelope(TRUE, "message", None)>>))
        /\ result[c][2][1] = "Ok"

(***************************************************************************)
(* C11                                                                     *)
(***************************************************************************)
\* the payload type of the envelope each operation deserializes into
EnvelopePayload(o) ==
    CASE o \in {"create_refund", "retry_refund", "fetch_refund"} -> "RefundData"
      [] o = "list_refunds" -> "Vec<RefundData>"
      [] o \in {"create_subscription", "fetch_subscription"} -> "Subscription"
      [] o = "list_subscriptions" -> "Vec<Subscription>"
      [] o \in {"enable_subscription", "disable_subscription"} -> "unit"
      [] OTHER -> "String"

\* the HTTP client handed call c a response text
Answered(c) == resp[c] # None /\ resp[c][2][1] = "Ok"

\* the response text of call c is JSON that deserializes into the typed
\* envelope of its operation
Decoded(c) ==
    /\ Answered(c)
    /\ resp[c][2][2][1] = "json"
    /\ DeserializeStruct(ResponseFields(EnvelopePayload(op[c])), resp[c][2][2][2])[1] = "Ok"

\* the response text of call c is an envelope with the given status flag, a
\* message and no data
BareEnvelope(c, st) ==
    /\ Answered(c)
    /\ resp[c][2][2][1] = "json"
    /\ resp[c][2][2][2][1] = "obj"
    /\ DOMAIN resp[c][2][2][2][2] = {"status", "message"}
    /\ resp[c][2][2][2][2]["status"] = JBool(st)
    /\ resp[c][2][2][2][2]["message"][1] = "str"

\* C11: a call returns Ok(envelope) if and only if the HTTP client returned
\* response text and that text deserialized into the typed envelope of the
\* operation; the envelope returned is the deserialized one, its status flag
\* is the flag of the text and is never inspected: an envelope with status
\* false comes back as Ok, not as an error.
C11_OkIffDecoded ==
    \A c \in Slots :
        (pc[c] = "done" /\ op[c] # "none")
        => /\ (result[c][2][1] = "Ok") <=> Decoded(c)
           /\ Decoded(c)
              => /\ result[c][2][2] =
                      DeserializeStruct(ResponseFields(EnvelopePayload(op[c])),
                                        resp[c][2][2][2])[2]
                 /\ JBool(result[c][2][2].status) = resp[c][2][2][2][2]["status"]
           /\ BareEnvelope(c, FALSE)
              => result[c] = Some(Ok([status |-> FALSE,
                                      message |-> resp[c][2][2][2][2]["message"][2],
                                      data |-> None]))

\* fetch_subscription was answered with a well-formed envelope whose status
\* is false and that carries a subscription, and returned it as Ok
C11_Witness ==
    \E c \in Slots :
        /\ op[c] = "fetch_subscription"
        /\ pc[c] = "done"
        /\ resp[c] = Some(Ok(<<"json", Envelope(FALSE, "message", Some(SubscriptionJson(TRUE)))>>))
        /\ result[c][2][1] = "Ok"
        /\ ~result[c][2][2].status
        /\ result[c][2][2].data[1] = "Some"

(***************************************************************************)
(* C12                                                                     *)
(***************************************************************************)
\* the text of an optional number, or of the default d when it is absent
NumberOr(o, d) == IF o[1] = "Some" THEN ToString(o[2]) ELSE ToString(d)

\* C12: list_subscriptions issues one GET that passes no query collection
\* (and no body) to the HTTP client; its URL is
\* <base>/subscription?perPage=<per_page or 50>&page=<page or 1>, followed by
\* &customer=<customer> when customer is present and then by &plan=<plan>
\* when plan is present, the plan text inserted exactly as the caller gave
\* it.
C12_ListSubscriptionsUrl ==
    \A c \in Slots :
        op[c] = "list_subscriptions"
        => LET a == args[c][2].v
           IN  /\ Len(sent[c]) = 1
               /\ sent[c][1].method = "GET"
               /\ sent[c][1].query = None
               /\ sent[c][1].body = None
               /\ sent[c][1].url =
                    PAYSTACK_BASE_URL \o "/subscription"
                    \o "?perPage=" \o NumberOr(a.per_page, 50)
                    \o "&page=" \o NumberOr(a.page, 1)
                    \o (IF a.customer = None THEN ""
                        ELSE "&customer=" \o ToString(a.customer[2]))
                    \o (IF a.plan = None THEN "" ELSE "&plan=" \o a.plan[2])

\* list_subscriptions went out without page and per_page, with a customer
\* and with a plan whose text holds a space and a slash
C12_Witness ==
    \E c \in Slots :
        /\ op[c] = "list_subscriptions"
        /\ Len(sent[c]) = 1
        /\ args[c][2].v.page = None
        /\ args[c][2].v.per_page = None
        /\ args[c][2].v.customer = Some(7)
        /\ args[c][2].v.plan = Some("PLN a/b")
        /\ sent[c][1].url =
             "https://api.paystack.co/subscription?perPage=50&page=1&customer=7&plan=PLN a/b"

====
